---- MODULE Spec2Model ----
(***************************************************************************)
(* Spellbook: the file-backed record store (server/storage.js), the REST   *)
(* handlers over it (server/index.js, server/app.js), the client store     *)
(* (src/state.js), the HTTP client (src/api.js) and the sync orchestrator  *)
(* (src/main.js).                                                          *)
(***************************************************************************)
EXTENDS Integers, Sequences, FiniteSets, Bags, TLC

\* ------------------------------------------------------------------ bounds
\* number of ids randomUUID() hands out (ids are 1..MaxIds, always fresh)
MaxIds == 2

\* number of ids in the runs that look at the listing order
MaxPageIds == 3
\* the server clock runs 0..MaxClock (new Date().toISOString())
MaxClock == 1
\* how many fs.writeFileSync calls may fail in one run
MaxWriteFailures == 1
\* page size the client asks for (main.js uses 20; scaled down)
PAGE_SIZE == 1

VARIABLES
    storage,   \* storage.js: spellsCache, trashCache, spells.json, trash.json
    nextId,    \* the next id randomUUID() returns
    now,       \* the server clock
    failures,  \* failed file writes so far
    table,     \* the hosted "spells" table server/app.js talks to
    backend,   \* which server the client's API_BASE_URL points at
    state,     \* state.js: the client store
    net        \* the fetch() calls in flight, a bag of requests

storeVars == <<storage, nextId, now, failures>>
clientVars == <<table, backend, state, net>>
vars == <<storage, nextId, now, failures, table, backend, state, net>>

\* ----------------------------------------------------------- JS helpers
\* { ...a, ...b }
Merge(a, b) ==
    [k \in (DOMAIN a) \cup (DOMAIN b) |-> IF k \in DOMAIN b THEN b[k] ELSE a[k]]

\* const { deletedAt, ...spell } = r
Strip(r, f) == [k \in (DOMAIN r) \ {f} |-> r[k]]

\* array.findIndex(s => s.id === id), 0 standing for -1
FindIndex(s, id) ==
    IF \E i \in 1..Len(s) : s[i].id = id
    THEN CHOOSE i \in 1..Len(s) : s[i].id = id /\ \A j \in 1..(i - 1) : s[j].id # id
    ELSE 0

\* array.splice(index, 1)
Splice(s, i) == SubSeq(s, 1, i - 1) \o SubSeq(s, i + 1, Len(s))

\* b.f !== undefined
Has(b, f) == f \in DOMAIN b

\* the JS value null, where a record is expected
Null == [null |-> TRUE]

\* String.prototype.trim on the names the model uses
Trim(s) == CASE s = " b " -> "b" [] s = " " -> "" [] OTHER -> s

\* ------------------------------------------------------------ storage.js
NullCache == [null |-> TRUE, v |-> <<>>]

\* loadSpells(): the cache, read from spells.json on first use
loadSpells(st) ==
    IF ~st.spellsCache.null THEN st
    ELSE [st EXCEPT !.spellsCache = [null |-> FALSE, v |-> st.spellsFile]]

\* saveSpells(): writeFileSync in a try/catch; ok says whether the write succeeds
saveSpells(st, ok) ==
    [st |-> IF ok THEN [st EXCEPT !.spellsFile = st.spellsCache.v] ELSE st,
     ret |-> ok]

loadTrash(st) ==
    IF ~st.trashCache.null THEN st
    ELSE [st EXCEPT !.trashCache = [null |-> FALSE, v |-> st.trashFile]]

saveTrash(st, ok) ==
    [st |-> IF ok THEN [st EXCEPT !.trashFile = st.trashCache.v] ELSE st,
     ret |-> ok]

getSpellById(st, id) ==
    LET s1 == loadSpells(st)
        i  == FindIndex(s1.spellsCache.v, id)
    IN  [st |-> s1, ret |-> IF i = 0 THEN Null ELSE s1.spellsCache.v[i]]

addSpell(st, spell, ok) ==
    LET s1 == loadSpells(st)
        s2 == [s1 EXCEPT !.spellsCache.v = Append(@, spell)]
    IN  [st |-> saveSpells(s2, ok).st, ret |-> spell]

\* variant: updateSpell adding the record when the id is not found
updateSpell_upsert(st, id, updates, ok) ==
    LET s1 == loadSpells(st)
        i  == FindIndex(s1.spellsCache.v, id)
        merged == IF i = 0 THEN updates ELSE Merge(s1.spellsCache.v[i], updates)
        s2 == IF i = 0 THEN [s1 EXCEPT !.spellsCache.v = Append(@, merged)]
              ELSE [s1 EXCEPT !.spellsCache.v[i] = merged]
    IN  [st |-> saveSpells(s2, ok).st, ret |-> merged]

updateSpell(st, id, updates, ok) ==
    LET s1 == loadSpells(st)
        i  == FindIndex(s1.spellsCache.v, id)
    IN  IF i = 0 THEN [st |-> s1, ret |-> Null]
        ELSE LET merged == Merge(s1.spellsCache.v[i], updates)
                 s2 == [s1 EXCEPT !.spellsCache.v[i] = merged]
             IN  [st |-> saveSpells(s2, ok).st, ret |-> merged]

\* deleteSpell(id): okT, okS say whether trash.json and spells.json are written
storage_deleteSpell(st, id, t, okT, okS) ==
    LET s1 == loadSpells(st)
        i  == FindIndex(s1.spellsCache.v, id)
    IN  IF i = 0 THEN [st |-> s1, ret |-> Null]
        ELSE LET deletedSpell == s1.spellsCache.v[i]
                 s2 == loadTrash(s1)
                 trashedSpell == Merge(deletedSpell, [deletedAt |-> t])
                 s3 == [s2 EXCEPT !.trashCache.v = Append(@, trashedSpell)]
                 s4 == saveTrash(s3, okT).st
                 s5 == [s4 EXCEPT !.spellsCache.v = Splice(@, i)]
             IN  [st |-> saveSpells(s5, okS).st, ret |-> deletedSpell]

getTrash(st) ==
    LET s1 == loadTrash(st) IN [st |-> s1, ret |-> s1.trashCache.v]

restoreSpell(st, id, okS, okT) ==
    LET s1 == loadTrash(st)
        i  == FindIndex(s1.trashCache.v, id)
    IN  IF i = 0 THEN [st |-> s1, ret |-> Null]
        ELSE LET spell == Strip(s1.trashCache.v[i], "deletedAt")
                 s2 == loadSpells(s1)
                 s3 == [s2 EXCEPT !.spellsCache.v = Append(@, spell)]
                 s4 == saveSpells(s3, okS).st
                 s5 == [s4 EXCEPT !.trashCache.v = Splice(@, i)]
             IN  [st |-> saveTrash(s5, okT).st, ret |-> spell]

\* a createdAt that new Date() cannot parse (Invalid Date, time value NaN)
NotADate == -1

\* new Date(a.createdAt || 0)
DateOf(spell, f) == IF Has(spell, f) THEN spell[f] ELSE 0

\* the comparator (a, b) => dateB - dateA; sort() takes a NaN result as 0
Compare(a, b, f) ==
    IF DateOf(a, f) = NotADate \/ DateOf(b, f) = NotADate THEN 0
    ELSE DateOf(b, f) - DateOf(a, f)

\* the stable sort by the comparator
RECURSIVE SortNewestFirst(_, _)
SortNewestFirst(s, f) ==
    IF s = <<>> THEN <<>>
    ELSE LET init == SortNewestFirst(SubSeq(s, 1, Len(s) - 1), f)
             x    == s[Len(s)]
             k    == Cardinality({j \in 1..Len(init) : Compare(init[j], x, f) <= 0})
         IN  SubSeq(init, 1, k) \o <<x>> \o SubSeq(init, k + 1, Len(init))

\* the comparator is consistent on s: no Invalid Date among differing dates
Consistent(s, f) ==
    \/ \A i \in DOMAIN s : DateOf(s[i], f) # NotADate
    \/ \A i, j \in DOMAIN s : Compare(s[i], s[j], f) = 0

Orders(s) ==
    {[i \in DOMAIN s |-> s[p[i]]] :
        p \in {q \in [DOMAIN s -> DOMAIN s] : \A i, j \in DOMAIN s : q[i] = q[j] => i = j}}

\* what [...spells].sort(comparator) can give: the stable sort, or, with a
\* comparator that is not consistent, an order the engine chooses
Sorted(s, f) ==
    IF Consistent(s, f) THEN {SortNewestFirst(s, f)} ELSE Orders(s)

\* array.slice(from, to) with 0-based from, exclusive to
Slice(s, from, to) ==
    IF from >= Len(s) THEN <<>>
    ELSE SubSeq(s, from + 1, IF to < Len(s) THEN to ELSE Len(s))

\* getSpellsPaginated(limit, offset); sortedSpells is what the sort gave,
\* one of Sorted(loadSpells(), "createdAt")
\* variant: total taken from the page
getSpellsPaginated_pageTotal(st, limit, offset, sortedSpells) ==
    [st |-> loadSpells(st),
     ret |-> [items |-> Slice(sortedSpells, offset, offset + limit),
              total |-> Len(Slice(sortedSpells, offset, offset + limit))]]

getSpellsPaginated(st, limit, offset, sortedSpells) ==
    LET s1 == loadSpells(st)
    IN  [st |-> s1,
         ret |-> [items |-> Slice(sortedSpells, offset, offset + limit),
                  total |-> Len(sortedSpells)]]

\* ------------------------------------------------------- server/index.js
ELEMENTS == {"Arcane", "Fire", "Frost", "Storm", "Nature"}
RARITIES == {"Common", "Uncommon", "Rare", "Mythic"}

\* JSON types.  A body holds values of the types the Spell record names; a
\* field whose JSON value has another type is listed in the body's mistyped
\* set ("ingredients[]": an array with an element that is not a string).
Mistyped(b, f) == Has(b, "mistyped") /\ f \in b.mistyped

\* variant: validateSpell without the .trim() === '' test
validateSpell_untrimmed(spell, isUpdate) ==
    (IF (~isUpdate \/ Has(spell, "name"))
           /\ (~Has(spell, "name") \/ Mistyped(spell, "name")
                  \/ spell.name = "")
        THEN <<"name is required and must be a non-empty string">> ELSE <<>>)
    \o (IF Has(spell, "element")
              /\ (Mistyped(spell, "element") \/ spell.element \notin ELEMENTS)
        THEN <<"element must be one of">> ELSE <<>>)
    \o (IF Has(spell, "rarity")
              /\ (Mistyped(spell, "rarity") \/ spell.rarity \notin RARITIES)
        THEN <<"rarity must be one of">> ELSE <<>>)
    \o (IF Has(spell, "manaCost")
              /\ (Mistyped(spell, "manaCost") \/ spell.manaCost < 0)
        THEN <<"manaCost must be a non-negative number">> ELSE <<>>)
    \o (IF Has(spell, "cooldownSec")
              /\ (Mistyped(spell, "cooldownSec") \/ spell.cooldownSec < 0)
        THEN <<"cooldownSec must be a non-negative number">> ELSE <<>>)
    \o (IF Has(spell, "description") /\ Mistyped(spell, "description")
        THEN <<"description must be a string">> ELSE <<>>)
    \o (IF Has(spell, "ingredients") /\ Mistyped(spell, "ingredients")
        THEN <<"ingredients must be an array">>
        ELSE IF Has(spell, "ingredients") /\ Mistyped(spell, "ingredients[]")
        THEN <<"ingredients must be an array of strings">> ELSE <<>>)

\* validateSpell(spell, isUpdate): the error messages, in order
validateSpell(spell, isUpdate) ==
    (IF (~isUpdate \/ Has(spell, "name"))
           /\ (~Has(spell, "name") \/ Mistyped(spell, "name")
                  \/ spell.name = "" \/ Trim(spell.name) = "")
        THEN <<"name is required and must be a non-empty string">> ELSE <<>>)
    \o (IF Has(spell, "element")
              /\ (Mistyped(spell, "element") \/ spell.element \notin ELEMENTS)
        THEN <<"element must be one of">> ELSE <<>>)
    \o (IF Has(spell, "rarity")
              /\ (Mistyped(spell, "rarity") \/ spell.rarity \notin RARITIES)
        THEN <<"rarity must be one of">> ELSE <<>>)
    \o (IF Has(spell, "manaCost")
              /\ (Mistyped(spell, "manaCost") \/ spell.manaCost < 0)
        THEN <<"manaCost must be a non-negative number">> ELSE <<>>)
    \o (IF Has(spell, "cooldownSec")
              /\ (Mistyped(spell, "cooldownSec") \/ spell.cooldownSec < 0)
        THEN <<"cooldownSec must be a non-negative number">> ELSE <<>>)
    \o (IF Has(spell, "description") /\ Mistyped(spell, "description")
        THEN <<"description must be a string">> ELSE <<>>)
    \o (IF Has(spell, "ingredients") /\ Mistyped(spell, "ingredients")
        THEN <<"ingredients must be an array">>
        ELSE IF Has(spell, "ingredients") /\ Mistyped(spell, "ingredients[]")
        THEN <<"ingredients must be an array of strings">> ELSE <<>>)

\* req.body.f || d, for string, number and array fields
OrStr(b, f, d) == IF Has(b, f) /\ b[f] # "" THEN b[f] ELSE d
OrNum(b, f, d) == IF Has(b, f) /\ b[f] # 0 THEN b[f] ELSE d
OrArr(b, f, d) == IF Has(b, f) THEN b[f] ELSE d

\* parseInt(req.query.f) || d
ParseOr(q, f, d) == IF Has(q, f) /\ q[f] # 0 THEN q[f] ELSE d

\* errors.join('; ')
RECURSIVE Join(_)
Join(errors) ==
    IF Len(errors) = 1 THEN errors[1] ELSE errors[1] \o "; " \o Join(Tail(errors))

Reply(st, status, body) == [st |-> st, res |-> [status |-> status, body |-> body]]

\* app.get('/spells')
index_getSpells(st, q, sortedSpells) ==
    LET limit  == ParseOr(q, "limit", 20)
        offset == ParseOr(q, "offset", 0)
    IN  IF limit < 1 \/ limit > 100
        THEN Reply(st, 400, [error |-> "limit must be between 1 and 100"])
        ELSE IF offset < 0
        THEN Reply(st, 400, [error |-> "offset must be non-negative"])
        ELSE LET r == getSpellsPaginated(st, limit, offset, sortedSpells)
             IN  Reply(r.st, 200, r.ret)

\* app.get('/spells/:id')
index_getSpell(st, id) ==
    LET g == getSpellById(st, id)
    IN  IF g.ret = Null THEN Reply(g.st, 404, [error |-> "Spell not found"])
        ELSE Reply(g.st, 200, g.ret)

\* app.post('/spells'): uuid is what randomUUID() returns, t the clock
index_post(st, body, uuid, t, ok) ==
    LET errors == validateSpell(body, FALSE)
    IN  IF errors # <<>> THEN Reply(st, 400, [error |-> Join(errors)])
        ELSE LET spell == [id |-> uuid,
                           name |-> Trim(body.name),
                           element |-> OrStr(body, "element", "Arcane"),
                           rarity |-> OrStr(body, "rarity", "Common"),
                           manaCost |-> OrNum(body, "manaCost", 0),
                           cooldownSec |-> OrNum(body, "cooldownSec", 0),
                           description |-> OrStr(body, "description", ""),
                           ingredients |-> OrArr(body, "ingredients", <<>>),
                           createdAt |-> t,
                           updatedAt |-> t]
                 a == addSpell(st, spell, ok)
             IN  Reply(a.st, 201, a.ret)

\* app.put('/spells/:id')
\* variant: the body spread after the time stamp, { updatedAt, ...req.body }
index_put_bodyLast(st, id, body, t, ok) ==
    LET g == getSpellById(st, id)
    IN  IF g.ret = Null THEN Reply(g.st, 404, [error |-> "Spell not found"])
        ELSE LET errors == validateSpell(body, TRUE)
             IN  IF errors # <<>> THEN Reply(g.st, 400, [error |-> Join(errors)])
                 ELSE LET u0 == Merge([updatedAt |-> t], body)
                          updates == IF Has(body, "name")
                                     THEN Merge(u0, [name |-> Trim(body.name)])
                                     ELSE u0
                          u == updateSpell(g.st, id, updates, ok)
                      IN  IF u.ret = Null
                          THEN Reply(u.st, 404, [error |-> "Spell not found"])
                          ELSE Reply(u.st, 200, u.ret)

index_put(st, id, body, t, ok) ==
    LET g == getSpellById(st, id)
    IN  IF g.ret = Null THEN Reply(g.st, 404, [error |-> "Spell not found"])
        ELSE LET errors == validateSpell(body, TRUE)
             IN  IF errors # <<>> THEN Reply(g.st, 400, [error |-> Join(errors)])
                 ELSE LET u0 == Merge(body, [updatedAt |-> t])
                          updates == IF Has(body, "name")
                                     THEN Merge(u0, [name |-> Trim(body.name)])
                                     ELSE u0
                          u == updateSpell(g.st, id, updates, ok)
                      IN  IF u.ret = Null
                          THEN Reply(u.st, 404, [error |-> "Spell not found"])
                          ELSE Reply(u.st, 200, u.ret)

\* app.delete('/spells/:id')
index_delete(st, id, t, okT, okS) ==
    LET g == getSpellById(st, id)
    IN  IF g.ret = Null THEN Reply(g.st, 404, [error |-> "Spell not found"])
        ELSE LET d == storage_deleteSpell(g.st, id, t, okT, okS)
             IN  IF d.ret = Null
                 THEN Reply(d.st, 404, [error |-> "Spell not found"])
                 ELSE Reply(d.st, 200, [ok |-> TRUE, deleted |-> d.ret])

\* app.get('/trash')
index_getTrash(st) ==
    LET r == getTrash(st) IN Reply(r.st, 200, [items |-> r.ret])

\* app.post('/trash/:id/restore')
index_restore(st, id, okS, okT) ==
    LET r == restoreSpell(st, id, okS, okT)
    IN  IF r.ret = Null THEN Reply(r.st, 404, [error |-> "Spell not found in trash"])
        ELSE Reply(r.st, 200, r.ret)

\* --------------------------------------------------------- server/app.js
\* The hosted table, as the supabase-js calls of app.js use it: rows are kept
\* in insertion order; .order('created_at', desc).range(from, to) is a slice
\* of the rows sorted newest first, count the number of rows.
Min(a, b) == IF a < b THEN a ELSE b
Max(a, b) == IF a > b THEN a ELSE b

\* the body of res.status(204).send()
EmptyBody == [empty |-> TRUE]

\* variant: parseInt(req.query.f) || d, a parsed 0 taken as missing
ParseDefault_falsy(q, f, d) == IF Has(q, f) /\ q[f] # 0 THEN q[f] ELSE d

\* parseInt(String(req.query.f ?? d), 10)
ParseDefault(q, f, d) == IF Has(q, f) THEN q[f] ELSE d

\* no .range() call was made
NotAsked == [asked |-> FALSE]

\* app.get('/spells'); supabase says whether the client is configured; asked
\* is the from and to given to .range()
app_getSpells(tb, st, supabase, q, sortedSpells) ==
    LET limitParsed  == ParseDefault(q, "limit", 20)
        offsetParsed == ParseDefault(q, "offset", 0)
        limit  == Min(limitParsed, 50)
        offset == Max(offsetParsed, 0)
        from == offset
        to   == offset + limit - 1
    IN  IF limit < 1
        THEN [tb |-> tb, st |-> st, asked |-> NotAsked,
              res |-> [status |-> 400, body |-> [message |-> "limit must be at least 1"]]]
        ELSE IF ~supabase
        THEN LET r == getSpellsPaginated(st, limit, offset, sortedSpells)
             IN  [tb |-> tb, st |-> r.st, asked |-> NotAsked,
                  res |-> [status |-> 200,
                           body |-> [items |-> r.ret.items, limit |-> limit,
                                     offset |-> offset, total |-> r.ret.total]]]
        ELSE [tb |-> tb, st |-> st, asked |-> [asked |-> TRUE, from |-> from, to |-> to],
              res |-> [status |-> 200,
                       body |-> [items |-> Slice(SortNewestFirst(tb, "created_at"), from, to + 1),
                                 limit |-> limit, offset |-> offset, total |-> Len(tb)]]]

NotConfigured(tb) ==
    [tb |-> tb, res |-> [status |-> 500, body |-> [message |-> "Supabase client not configured"]]]

\* app.get('/spells/:id')
app_getSpell(tb, supabase, id) ==
    IF ~supabase THEN NotConfigured(tb)
    ELSE LET i == FindIndex(tb, id)
         IN  IF i = 0
             THEN [tb |-> tb, res |-> [status |-> 404, body |-> [message |-> "Spell not found"]]]
             ELSE [tb |-> tb, res |-> [status |-> 200, body |-> tb[i]]]

\* app.post('/spells')
app_post(tb, supabase, body, uuid, t) ==
    LET errors == validateSpell(body, FALSE)
    IN  IF errors # <<>>
        THEN [tb |-> tb, res |-> [status |-> 400, body |-> [message |-> Join(errors)]]]
        ELSE IF ~supabase THEN NotConfigured(tb)
        ELSE LET spell == [id |-> uuid,
                           name |-> Trim(body.name),
                           element |-> OrStr(body, "element", "Arcane"),
                           rarity |-> OrStr(body, "rarity", "Common"),
                           manaCost |-> OrNum(body, "manaCost", 0),
                           cooldownSec |-> OrNum(body, "cooldownSec", 0),
                           description |-> OrStr(body, "description", ""),
                           ingredients |-> OrArr(body, "ingredients", <<>>),
                           created_at |-> t,
                           updated_at |-> t]
             IN  [tb |-> Append(tb, spell), res |-> [status |-> 201, body |-> spell]]

\* app.put('/spells/:id')
app_put(tb, supabase, id, body, t) ==
    IF ~supabase THEN NotConfigured(tb)
    ELSE LET errors == validateSpell(body, TRUE)
         IN  IF errors # <<>>
             THEN [tb |-> tb, res |-> [status |-> 400, body |-> [message |-> Join(errors)]]]
             ELSE LET u0 == Merge(body, [updated_at |-> t])
                      updates == IF Has(body, "name")
                                 THEN Merge(u0, [name |-> Trim(body.name)])
                                 ELSE u0
                      i == FindIndex(tb, id)
                  IN  IF i = 0
                      THEN [tb |-> tb,
                            res |-> [status |-> 404, body |-> [message |-> "Spell not found"]]]
                      ELSE LET row == Merge(tb[i], updates)
                           IN  [tb |-> [tb EXCEPT ![i] = row],
                                res |-> [status |-> 200, body |-> row]]

\* app.delete('/spells/:id')
app_delete(tb, supabase, id) ==
    IF ~supabase THEN NotConfigured(tb)
    ELSE LET i == FindIndex(tb, id)
         IN  IF i = 0
             THEN [tb |-> tb, res |-> [status |-> 404, body |-> [message |-> "Spell not found"]]]
             ELSE [tb |-> Splice(tb, i), res |-> [status |-> 204, body |-> EmptyBody]]

\* app.get('/trash'): the trash of the storage module
app_getTrash(st) ==
    LET g == getTrash(st) IN [st |-> g.st, res |-> [status |-> 200, body |-> g.ret]]

\* app.post('/trash/:id/restore'): restoreSpell of the storage module
app_restore(st, id, okS, okT) ==
    LET r == restoreSpell(st, id, okS, okT)
    IN  IF r.ret = Null
        THEN [st |-> r.st, res |-> [status |-> 404, body |-> [message |-> "Spell not found in trash"]]]
        ELSE [st |-> r.st, res |-> [status |-> 200, body |-> r.ret]]

\* ------------------------------------------------- server/app.js, CORS
ALLOWED_ORIGINS ==
    {"http://localhost:5173", "https://spell-book.pages.dev",
     "https://spell-book-ccv1.onrender.com"}

\* corsBaseOptions with origin: false
OriginOff == [optionsSuccessStatus |-> 204, reflect |-> FALSE, origin |-> "", failed |-> FALSE]

\* variant: a disallowed origin is an error given to the callback
corsOptionsDelegate_strict(req) ==
    IF ~Has(req.headers, "Origin") \/ req.headers.Origin = "" THEN OriginOff
    ELSE IF req.headers.Origin \in ALLOWED_ORIGINS
    THEN [OriginOff EXCEPT !.reflect = TRUE, !.origin = req.headers.Origin]
    ELSE [OriginOff EXCEPT !.failed = TRUE]

\* corsOptionsDelegate(req, callback): the options given to the callback
corsOptionsDelegate(req) ==
    IF ~Has(req.headers, "Origin") \/ req.headers.Origin = "" THEN OriginOff
    ELSE IF req.headers.Origin \in ALLOWED_ORIGINS
    THEN [OriginOff EXCEPT !.reflect = TRUE, !.origin = req.headers.Origin]
    ELSE OriginOff

NoHeaders == <<>>

\* cors(corsOptionsDelegate), the middleware: an error goes to the error
\* handler; with origin false the request passes on as it is; with an origin
\* the header is set, and a preflight is answered with optionsSuccessStatus
cors(req) ==
    LET options == corsOptionsDelegate(req)
    IN  IF options.failed
        THEN [ended |-> TRUE, status |-> 500, headers |-> NoHeaders]
        ELSE IF ~options.reflect
        THEN [ended |-> FALSE, status |-> 0, headers |-> NoHeaders]
        ELSE LET set == [h \in {"Access-Control-Allow-Origin", "Vary"} |->
                             IF h = "Vary" THEN "Origin" ELSE options.origin]
             IN  IF req.method = "OPTIONS"
                 THEN [ended |-> TRUE, status |-> options.optionsSuccessStatus, headers |-> set]
                 ELSE [ended |-> FALSE, status |-> 0, headers |-> set]

\* the status the routes below the middleware give to a request
routeStatus(req, tb, st, supabase, sortedSpells) ==
    CASE req.method = "GET" /\ req.path = "/health" -> 200
      [] req.method = "GET" /\ req.path = "/spells" ->
             app_getSpells(tb, st, supabase, req.query, sortedSpells).res.status
      [] req.method = "GET" /\ req.path = "/spells/:id" ->
             app_getSpell(tb, supabase, req.id).res.status
      [] OTHER -> 404

\* the application: the middleware, then the routes
app_respond(req, tb, st, supabase, sortedSpells) ==
    LET c == cors(req)
    IN  IF c.ended THEN [status |-> c.status, headers |-> c.headers]
        ELSE [status |-> routeStatus(req, tb, st, supabase, sortedSpells),
              headers |-> c.headers]

\* ------------------------------------------------------------ src/state.js
\* state.error = null
NoError == "null"

InitState ==
    [spells |-> <<>>, selectedSpell |-> Null, total |-> 0, offset |-> 0,
     loading |-> [list |-> FALSE, spell |-> FALSE, save |-> FALSE, delete |-> FALSE],
     error |-> NoError, searchQuery |-> "", sortOrder |-> "asc"]

\* state = { ...state, ...updates }
updateState(s, updates) == Merge(s, updates)

setSpells(s, spells, total) ==
    updateState(s, [spells |-> spells, total |-> total, offset |-> Len(spells)])

\* variant: the offset advanced from the stored offset
appendSpells_fromStoredOffset(s, newSpells, total) ==
    updateState(s, [spells |-> s.spells \o newSpells, total |-> total,
                    offset |-> s.offset + Len(newSpells)])

appendSpells(s, newSpells, total) ==
    updateState(s, [spells |-> s.spells \o newSpells, total |-> total,
                    offset |-> Len(s.spells) + Len(newSpells)])

setSelectedSpell(s, spell) == updateState(s, [selectedSpell |-> spell])

clearSelectedSpell(s) == updateState(s, [selectedSpell |-> Null])

setLoading(s, key, value) ==
    updateState(s, [loading |-> [s.loading EXCEPT ![key] = value]])

setError(s, error) == updateState(s, [error |-> error])

clearError(s) == updateState(s, [error |-> NoError])

\* variant: a record that is not in the list goes to the end of it
updateSpellInList_appended(s, updatedSpell) ==
    LET index == FindIndex(s.spells, updatedSpell.id)
    IN  IF index # 0
        THEN updateState(s, [spells |-> [s.spells EXCEPT ![index] = updatedSpell]])
        ELSE updateState(s, [spells |-> s.spells \o <<updatedSpell>>,
                             total |-> s.total + 1])

updateSpellInList(s, updatedSpell) ==
    LET index == FindIndex(s.spells, updatedSpell.id)
    IN  IF index # 0
        THEN updateState(s, [spells |-> [s.spells EXCEPT ![index] = updatedSpell]])
        ELSE updateState(s, [spells |-> <<updatedSpell>> \o s.spells,
                             total |-> s.total + 1])

KeepOthers(spells, id) == SelectSeq(spells, LAMBDA x : x.id # id)

\* variant: total - 1 without the floor
removeSpellFromList_unfloored(s, id) ==
    updateState(s, [spells |-> KeepOthers(s.spells, id),
                    total |-> s.total - 1])

removeSpellFromList(s, id) ==
    updateState(s, [spells |-> KeepOthers(s.spells, id),
                    total |-> Max(0, s.total - 1)])

setSearchQuery(s, query) == updateState(s, [searchQuery |-> query])

setSortOrder(s, order) == updateState(s, [sortOrder |-> order])

\* the characters of the strings the view is given
Chars(str) ==
    CASE str = ""      -> <<>>
      [] str = " "     -> <<" ">>
      [] str = "a"     -> <<"a">>
      [] str = "A"     -> <<"A">>
      [] str = "b"     -> <<"b">>
      [] str = "B"     -> <<"B">>
      [] str = "a b"   -> <<"a", " ", "b">>
      [] str = "Ab"    -> <<"A", "b">>
      [] str = "AB"    -> <<"A", "B">>
      [] str = "fr"    -> <<"f", "r">>
      [] str = "Fire"  -> <<"F", "i", "r", "e">>
      [] str = "Frost" -> <<"F", "r", "o", "s", "t">>

\* String.prototype.toLowerCase
LowerChar(c) == CASE c = "A" -> "a" [] c = "B" -> "b" [] c = "F" -> "f" [] OTHER -> c
toLowerCase(chars) == [i \in DOMAIN chars |-> LowerChar(chars[i])]

\* String.prototype.includes
includes(chars, query) ==
    \E i \in 0..(Len(chars) - Len(query)) : SubSeq(chars, i + 1, i + Len(query)) = query

\* String.prototype.localeCompare under the default collation: the letters
\* decide, a space ahead of every letter and a prefix ahead of what extends
\* it; between strings of the same letters the case decides, lower case first
Primary(c) == CASE c = " " -> 0 [] c \in {"a", "A"} -> 1 [] c \in {"b", "B"} -> 2
Tertiary(c) == IF c \in {"A", "B"} THEN 1 ELSE 0
CompareKeys(x, y) ==
    LET D == {i \in 1..Min(Len(x), Len(y)) : x[i] # y[i]}
    IN  IF D = {}
        THEN (IF Len(x) < Len(y) THEN -1 ELSE IF Len(x) > Len(y) THEN 1 ELSE 0)
        ELSE LET i == CHOOSE k \in D : \A m \in D : k <= m
             IN  IF x[i] < y[i] THEN -1 ELSE 1
localeCompare(a, b) ==
    LET x == Chars(a)
        y == Chars(b)
        p == CompareKeys([i \in DOMAIN x |-> Primary(x[i])],
                         [i \in DOMAIN y |-> Primary(y[i])])
    IN  IF p # 0 THEN p
        ELSE CompareKeys([i \in DOMAIN x |-> Tertiary(x[i])],
                         [i \in DOMAIN y |-> Tertiary(y[i])])

\* the comparator of filtered.sort in getFilteredSpells
ByName(a, b, sortOrder) ==
    LET comparison == localeCompare(a.name, b.name)
    IN  IF sortOrder = "asc" THEN comparison ELSE 0 - comparison

\* Array.prototype.sort with that comparator: stable
RECURSIVE SortByName(_, _)
SortByName(s, sortOrder) ==
    IF Len(s) <= 1 THEN s
    ELSE LET init == SortByName(SubSeq(s, 1, Len(s) - 1), sortOrder)
             x == s[Len(s)]
             k == Cardinality({j \in DOMAIN init : ByName(init[j], x, sortOrder) <= 0})
         IN  SubSeq(init, 1, k) \o <<x>> \o SubSeq(init, k + 1, Len(init))

\* variant: the search looks at the name only
getFilteredSpells_nameOnly(s) ==
    LET query == toLowerCase(Chars(s.searchQuery))
        filtered ==
            IF Trim(s.searchQuery) # ""
            THEN SelectSeq(s.spells, LAMBDA spell :
                     includes(toLowerCase(Chars(spell.name)), query))
            ELSE s.spells
    IN  SortByName(filtered, s.sortOrder)

getFilteredSpells(s) ==
    LET query == toLowerCase(Chars(s.searchQuery))
        filtered ==
            IF Trim(s.searchQuery) # ""
            THEN SelectSeq(s.spells, LAMBDA spell :
                     \/ includes(toLowerCase(Chars(spell.name)), query)
                     \/ includes(toLowerCase(Chars(spell.description)), query)
                     \/ includes(toLowerCase(Chars(spell.element)), query))
            ELSE s.spells
    IN  SortByName(filtered, s.sortOrder)

\* The arrays of getFilteredSpells: filtered is a copy ([...state.spells], or
\* what filter returns) or state.spells itself, and sort reorders in place the
\* array it is called on. What the call leaves in the store:
\* variant: filtered = state.spells, no copy
getFilteredSpells_store_noCopy(s) ==
    LET spread == [shared |-> TRUE, v |-> s.spells]
        filtered == IF Trim(s.searchQuery) # ""
                    THEN [shared |-> FALSE, v |-> <<>>]
                    ELSE spread
    IN  IF filtered.shared
        THEN updateState(s, [spells |-> SortByName(s.spells, s.sortOrder)])
        ELSE s

getFilteredSpells_store(s) ==
    LET spread == [shared |-> FALSE, v |-> s.spells]
        filtered == IF Trim(s.searchQuery) # ""
                    THEN [shared |-> FALSE, v |-> <<>>]
                    ELSE spread
    IN  IF filtered.shared
        THEN updateState(s, [spells |-> SortByName(s.spells, s.sortOrder)])
        ELSE s

\* The module variables of state.js together: state, the callback
\* onStateChange (Null before one is set), and the calls made to callbacks,
\* each with the callback called and its argument.
StoreModule(s, callback) == [state |-> s, onStateChange |-> callback, calls |-> <<>>]

setStateChangeCallback(m, callback) == [m EXCEPT !.onStateChange = callback]

\* variant: the callback is called before state is assigned
updateState_observed_early(m, updates) ==
    LET called == IF m.onStateChange # Null
                  THEN Append(m.calls, [callback |-> m.onStateChange, arg |-> m.state])
                  ELSE m.calls
    IN  [m EXCEPT !.state = Merge(m.state, updates), !.calls = called]

\* updateState(updates), with its call of onStateChange
updateState_observed(m, updates) ==
    LET assigned == Merge(m.state, updates)
    IN  [m EXCEPT !.state = assigned,
                  !.calls = IF m.onStateChange # Null
                            THEN Append(@, [callback |-> m.onStateChange, arg |-> assigned])
                            ELSE @]

\* -------------------------------------------------------------- src/api.js
\* What fetch() gives for a request: a rejection (no response reached the
\* client) or the server's response.
Rejected == [rejected |-> TRUE, status |-> 0, body |-> EmptyBody]
Response(res) == [rejected |-> FALSE, status |-> res.status, body |-> res.body]

Ok(v) == [ok |-> TRUE, value |-> v]
Err(m) == [ok |-> FALSE, message |-> m]

\* parseErrorMessage: response.json().catch(() => ({})), then
\* error.message || error.error || fallbackMessage
parseErrorMessage(body, fallbackMessage) ==
    IF body = EmptyBody THEN fallbackMessage
    ELSE IF Has(body, "message") /\ body.message # "" THEN body.message
    ELSE IF Has(body, "error") /\ body.error # "" THEN body.error
    ELSE fallbackMessage

\* response.json(): an empty body is no JSON text
responseJson(body) ==
    IF body = EmptyBody THEN Err("Unexpected end of JSON input") ELSE Ok(body)

\* the shape every function of api.js has: fetch, test response.ok, parse;
\* every failure is rethrown as Error(error.message || fallback)
ApiCall(out, fallbackMessage) ==
    IF out.rejected THEN Err("Failed to fetch")
    ELSE IF out.status < 200 \/ out.status > 299
    THEN Err(parseErrorMessage(out.body, fallbackMessage))
    ELSE responseJson(out.body)

api_fetchSpells(out) == ApiCall(out, "Failed to fetch spells")
api_fetchSpell(out) == ApiCall(out, "Spell not found")
api_createSpell(out) == ApiCall(out, "Failed to create spell")
api_updateSpell(out) == ApiCall(out, "Failed to update spell")
api_deleteSpell(out) == ApiCall(out, "Failed to delete spell")

\* ------------------------------------------------------------- src/main.js
\* A fetch() in flight: what was asked, the variables the awaiting function
\* holds (k), how far the request got, and the server's answer once it has one.
NoRes == [status |-> 0, body |-> EmptyBody]
Req(kind, args, k) ==
    [kind |-> kind, args |-> args, k |-> k, stage |-> "sent", res |-> NoRes]

One(r) == SetToBag({r})

\* what an orchestrator call leaves: the store, the requests in flight, and
\* whether it issued a request (and so is suspended at an await)
Went(s, n, issued) == [state |-> s, net |-> n, issued |-> issued]

\* loadSpells(offset), up to its await; k is what the caller resumes with
main_loadSpells(s, n, offset, k) ==
    IF s.loading.list THEN Went(s, n, FALSE)
    ELSE Went(clearError(setLoading(s, "list", TRUE)),
              n (+) One(Req("list", [limit |-> PAGE_SIZE, offset |-> offset], k)),
              TRUE)

\* variant: a failed load of the first page empties the list
loadSpells_resume_emptiesOnFailure(s, r, out) ==
    LET a == api_fetchSpells(out)
    IN  IF a.ok
        THEN setLoading(IF r.args.offset = 0
                        THEN setSpells(s, a.value.items, a.value.total)
                        ELSE appendSpells(s, a.value.items, a.value.total),
                        "list", FALSE)
        ELSE setLoading(setError(IF r.args.offset = 0 THEN setSpells(s, <<>>, 0) ELSE s,
                                 a.message), "list", FALSE)

\* loadSpells from the await on: try / catch / finally
loadSpells_resume(s, r, out) ==
    LET a == api_fetchSpells(out)
    IN  IF a.ok
        THEN setLoading(IF r.args.offset = 0
                        THEN setSpells(s, a.value.items, a.value.total)
                        ELSE appendSpells(s, a.value.items, a.value.total),
                        "list", FALSE)
        ELSE setLoading(setError(s, a.message), "list", FALSE)

\* loadSpell(id), up to its await
\* variant: loadSpell without its loading.spell guard
main_loadSpell_unguarded(s, n, id) ==
    Went(clearError(setLoading(s, "spell", TRUE)),
         n (+) One(Req("spell", [id |-> id], [caller |-> "ui"])),
         TRUE)

main_loadSpell(s, n, id) ==
    IF s.loading.spell THEN Went(s, n, FALSE)
    ELSE Went(clearError(setLoading(s, "spell", TRUE)),
              n (+) One(Req("spell", [id |-> id], [caller |-> "ui"])),
              TRUE)

loadSpell_resume(s, r, out) ==
    LET a == api_fetchSpell(out)
    IN  IF a.ok THEN setLoading(setSelectedSpell(s, a.value), "spell", FALSE)
        ELSE setLoading(setError(s, a.message), "spell", FALSE)

\* the catch and finally blocks of saveSpell
\* variant: saveSpell's catch block dropping the selection as well
saveSpell_failed_clearsSelection(s, message) ==
    setLoading(setError(clearSelectedSpell(s), message), "save", FALSE)

\* variant: saveSpell's catch block without the finally block
saveSpell_failed_noFinally(s, message) == setError(s, message)

saveSpell_failed(s, message) == setLoading(setError(s, message), "save", FALSE)

\* saveSpell after its reload: re-select the saved spell, then finally
saveSpell_reloaded(s, savedSpell) ==
    setLoading(setSelectedSpell(s, savedSpell), "save", FALSE)

\* saveSpell(), up to its first await; form is what the user typed
main_saveSpell(s, n, form) ==
    IF s.selectedSpell = Null \/ s.loading.save THEN Went(s, n, FALSE)
    ELSE IF form.name = "" THEN Went(s, n, FALSE)
    ELSE LET s1   == clearError(setLoading(s, "save", TRUE))
             name == Trim(form.name)
             spellData == [name |-> name,
                           element |-> form.element,
                           rarity |-> form.rarity,
                           manaCost |-> OrNum(form, "manaCost", 0),
                           cooldownSec |-> OrNum(form, "cooldownSec", 0),
                           description |-> OrStr(form, "description", ""),
                           ingredients |-> form.ingredients]
         IN  IF name = "" THEN Went(saveSpell_failed(s1, "Name is required"), n, FALSE)
             ELSE IF Has(s.selectedSpell, "id")
             THEN Went(s1, n (+) One(Req("update",
                                         [id |-> s.selectedSpell.id, body |-> spellData],
                                         [wasNew |-> FALSE])), TRUE)
             ELSE Went(s1, n (+) One(Req("create", [body |-> spellData],
                                         [wasNew |-> TRUE])), TRUE)

\* saveSpell from the create or update await on
saveSpell_resume(s, n, r, out) ==
    LET a == IF r.kind = "create" THEN api_createSpell(out) ELSE api_updateSpell(out)
    IN  IF ~a.ok THEN Went(saveSpell_failed(s, a.message), n, FALSE)
        ELSE LET savedSpell == a.value
                 s1 == setSelectedSpell(s, savedSpell)
             IN  IF r.k.wasNew
                 THEN LET L == main_loadSpells(s1, n, 0,
                                   [caller |-> "save", savedSpell |-> savedSpell])
                      IN  IF L.issued THEN L
                          ELSE Went(saveSpell_reloaded(L.state, savedSpell), L.net, FALSE)
                 ELSE Went(setLoading(updateSpellInList(s1, savedSpell), "save", FALSE),
                           n, FALSE)

\* deleteSpell(id), up to its await; confirmed is the answer to confirm()
main_deleteSpell(s, n, id, confirmed) ==
    IF ~confirmed THEN Went(s, n, FALSE)
    ELSE IF s.loading.delete THEN Went(s, n, FALSE)
    ELSE Went(clearError(setLoading(s, "delete", TRUE)),
              n (+) One(Req("delete", [id |-> id], [caller |-> "ui"])),
              TRUE)

deleteSpell_resume(s, r, out) ==
    LET a == api_deleteSpell(out)
    IN  IF a.ok
        THEN setLoading(clearSelectedSpell(removeSpellFromList(s, r.args.id)),
                        "delete", FALSE)
        ELSE setLoading(setError(s, a.message), "delete", FALSE)

\* createNewSpell()
createNewSpell(s) ==
    setSelectedSpell(s, [name |-> "", element |-> "Arcane", rarity |-> "Common",
                         manaCost |-> 0, cooldownSec |-> 0, description |-> "",
                         ingredients |-> <<>>])

\* the function suspended on request r goes on with the outcome out
Resume(s, n, r, out) ==
    CASE r.kind = "list" ->
            LET s1 == loadSpells_resume(s, r, out)
            IN  IF r.k.caller = "save"
                THEN Went(saveSpell_reloaded(s1, r.k.savedSpell), n, FALSE)
                ELSE Went(s1, n, FALSE)
      [] r.kind = "spell"  -> Went(loadSpell_resume(s, r, out), n, FALSE)
      [] r.kind = "delete" -> Went(deleteSpell_resume(s, r, out), n, FALSE)
      [] OTHER             -> saveSpell_resume(s, n, r, out)

\* ------------------------------------------------- the store, run by HTTP
Ids == 1..MaxIds

\* request bodies: a valid name, a blank name, no name; for PUT also a name to
\* trim and bodies that carry the fields the server assigns (a later date,
\* and a string that is no date)
PostBodies == {[name |-> "a"], [name |-> " "], [manaCost |-> 0]}
PutBodies ==
    {[name |-> " b "], [name |-> " "]}
    \cup {[id |-> i] : i \in Ids}
    \cup {[createdAt |-> MaxClock + 1], [createdAt |-> NotADate]}

\* the outcomes of n writeFileSync calls, with at most budget failures in a run
Fails(w) == Cardinality({i \in DOMAIN w : ~w[i]})
Writes(n, budget) == {w \in [1..n -> BOOLEAN] : failures + Fails(w) <= budget}

StoreInit ==
    /\ storage = [spellsCache |-> NullCache, trashCache |-> NullCache,
                  spellsFile |-> <<>>, trashFile |-> <<>>]
    /\ nextId = 1
    /\ now = 0
    /\ failures = 0
    /\ table = <<>>
    /\ backend = "index"
    /\ state = InitState
    /\ net = EmptyBag

Tick ==
    /\ now < MaxClock
    /\ now' = now + 1
    /\ UNCHANGED <<storage, nextId, failures, clientVars>>

\* the writing routes of server/index.js, for given request bodies and ids
Post(bodies, lastId, budget) ==
    \E body \in bodies : \E w \in Writes(1, budget) :
        /\ nextId <= lastId
        /\ LET r == index_post(storage, body, nextId, now, w[1])
           IN  /\ storage' = r.st
               /\ nextId' = IF r.res.status = 201 THEN nextId + 1 ELSE nextId
               /\ failures' = IF r.res.status = 201 THEN failures + Fails(w) ELSE failures
        /\ UNCHANGED <<now, clientVars>>

Put(ids, bodies, budget) ==
    \E id \in ids : \E body \in bodies : \E w \in Writes(1, budget) :
        /\ LET r == index_put(storage, id, body, now, w[1])
           IN  /\ storage' = r.st
               /\ failures' = IF r.res.status = 200 THEN failures + Fails(w) ELSE failures
        /\ UNCHANGED <<nextId, now, clientVars>>

Delete(ids, budget) ==
    \E id \in ids : \E w \in Writes(2, budget) :
        /\ LET r == index_delete(storage, id, now, w[1], w[2])
           IN  /\ storage' = r.st
               /\ failures' = IF r.res.status = 200 THEN failures + Fails(w) ELSE failures
        /\ UNCHANGED <<nextId, now, clientVars>>

Restore(ids, budget) ==
    \E id \in ids : \E w \in Writes(2, budget) :
        /\ LET r == index_restore(storage, id, w[1], w[2])
           IN  /\ storage' = r.st
               /\ failures' = IF r.res.status = 200 THEN failures + Fails(w) ELSE failures
        /\ UNCHANGED <<nextId, now, clientVars>>

HttpPost == Post(PostBodies, MaxIds, MaxWriteFailures)
HttpPut == Put(Ids, PutBodies, MaxWriteFailures)
HttpDelete == Delete(Ids, MaxWriteFailures)
HttpRestore == Restore(Ids, MaxWriteFailures)

StoreNext ==
    \/ Tick
    \/ HttpPost
    \/ HttpPut
    \/ HttpDelete
    \/ HttpRestore

StoreSpec == StoreInit /\ [][StoreNext]_vars

\* ------------------------------------- the store, for the listing order
\* more records, fewer kinds of request: records are created, their createdAt
\* is overwritten through PUT, they are deleted and restored; writes succeed
PageIds == 1..MaxPageIds
PagePostBodies == {[name |-> "a"]}
PagePutBodies == {[createdAt |-> MaxClock + 1], [createdAt |-> NotADate]}

PagePost == Post(PagePostBodies, MaxPageIds, 0)
PagePut == Put(PageIds, PagePutBodies, 0)
PageDelete == Delete(PageIds, 0)
PageRestore == Restore(PageIds, 0)

PageNext ==
    \/ Tick
    \/ PagePost
    \/ PagePut
    \/ PageDelete
    \/ PageRestore

PageSpec == StoreInit /\ [][PageNext]_vars

\* the live records and the trash as the store sees them
Live == loadSpells(storage).spellsCache.v
Trash == loadTrash(storage).trashCache.v

\* -------------------------------- the store and its files, with restarts
\* records are created, deleted and restored, a write can fail, and the
\* process can be started again: the module variables spellsCache and
\* trashCache are null again and the next read is from the files
Restart ==
    /\ storage' = [storage EXCEPT !.spellsCache = NullCache, !.trashCache = NullCache]
    /\ UNCHANGED <<nextId, now, failures, clientVars>>

PersistPost == Post(PagePostBodies, MaxIds, MaxWriteFailures)
PersistDelete == Delete(Ids, MaxWriteFailures)
PersistRestore == Restore(Ids, MaxWriteFailures)

PersistNext == Tick \/ PersistPost \/ PersistDelete \/ PersistRestore \/ Restart

PersistSpec == StoreInit /\ [][PersistNext]_vars

\* ------------------------------------------- the client against a server
\* what the user types into the name field: a name, and blanks only
FormNames == {"a", " "}
Form(name) ==
    [name |-> name, element |-> "Arcane", rarity |-> "Common", manaCost |-> 0,
     cooldownSec |-> 0, description |-> "", ingredients |-> <<>>]

Backends == {"index", "app"}

InFlight == BagToSet(net)

\* init(): the callback is set and loadSpells(0) has run up to its await
ClientInit ==
    /\ storage = [spellsCache |-> NullCache, trashCache |-> NullCache,
                  spellsFile |-> <<>>, trashFile |-> <<>>]
    /\ nextId = 1
    /\ now = 0
    /\ failures = 0
    /\ table = <<>>
    /\ backend \in Backends
    /\ LET L == main_loadSpells(InitState, EmptyBag, 0, [caller |-> "ui"])
       IN  state = L.state /\ net = L.net

ServerVars == <<storage, nextId, now, failures, table, backend>>

Did(w) ==
    /\ state' = w.state
    /\ net' = w.net
    /\ UNCHANGED ServerVars

\* the Load More button: rendered disabled unless offset < total and no list
\* load is running
LoadMoreOffset == state.offset

ClickLoadMore ==
    /\ state.offset < state.total
    /\ ~state.loading.list
    /\ Did(main_loadSpells(state, net, LoadMoreOffset, [caller |-> "ui"]))

\* a click on one of the cards of the loaded list
ClickSpellCard ==
    \E i \in 1..Len(state.spells) :
        Did(main_loadSpell(state, net, state.spells[i].id))

\* Add Spell in the controls (always enabled)
ClickAddSpell ==
    /\ state' = createNewSpell(state)
    /\ UNCHANGED <<net, ServerVars>>

\* the form's submit button: rendered only with a selected spell, disabled
\* while a save or a delete runs
SubmitForm ==
    \E name \in FormNames :
        /\ state.selectedSpell # Null
        /\ ~(state.loading.save \/ state.loading.delete)
        /\ Did(main_saveSpell(state, net, Form(name)))

\* the Delete button: disabled for an unsaved spell and while a save or a
\* delete runs; the user answers the confirm() dialog
ClickDelete ==
    \E confirmed \in BOOLEAN :
        /\ state.selectedSpell # Null
        /\ Has(state.selectedSpell, "id")
        /\ ~(state.loading.save \/ state.loading.delete)
        /\ Did(main_deleteSpell(state, net, state.selectedSpell.id, confirmed))

Answered(r, res) == [r EXCEPT !.stage = "answered", !.res = res]

\* server/index.js takes request r off the wire and answers it
IndexHandle(r) ==
    /\ backend = "index"
    /\ r.stage = "sent"
    /\ r.kind = "create" => nextId <= MaxIds
    /\ \E sortedSpells \in Sorted(loadSpells(storage).spellsCache.v, "createdAt") :
       LET a == CASE r.kind = "list" ->
                        index_getSpells(storage, r.args, sortedSpells)
                  [] r.kind = "spell" -> index_getSpell(storage, r.args.id)
                  [] r.kind = "create" ->
                        index_post(storage, r.args.body, nextId, now, TRUE)
                  [] r.kind = "update" ->
                        index_put(storage, r.args.id, r.args.body, now, TRUE)
                  [] OTHER -> index_delete(storage, r.args.id, now, TRUE, TRUE)
       IN  /\ storage' = a.st
           /\ nextId' = IF a.res.status = 201 THEN nextId + 1 ELSE nextId
           /\ net' = (net (-) One(r)) (+) One(Answered(r, a.res))
    /\ UNCHANGED <<now, failures, table, backend, state>>

\* server/app.js, with the hosted table configured, does
AppHandle(r) ==
    /\ backend = "app"
    /\ r.stage = "sent"
    /\ r.kind = "create" => nextId <= MaxIds
    /\ \E sortedSpells \in Sorted(loadSpells(storage).spellsCache.v, "createdAt") :
       LET a == CASE r.kind = "list" ->
                        app_getSpells(table, storage, TRUE, r.args, sortedSpells)
                  [] r.kind = "spell" -> app_getSpell(table, TRUE, r.args.id)
                  [] r.kind = "create" ->
                        app_post(table, TRUE, r.args.body, nextId, now)
                  [] r.kind = "update" ->
                        app_put(table, TRUE, r.args.id, r.args.body, now)
                  [] OTHER -> app_delete(table, TRUE, r.args.id)
       IN  /\ table' = a.tb
           /\ nextId' = IF a.res.status = 201 THEN nextId + 1 ELSE nextId
           /\ net' = (net (-) One(r)) (+) One(Answered(r, a.res))
    /\ UNCHANGED <<now, failures, storage, backend, state>>

\* the response to r reaches the client: the awaiting function goes on
DeliverTo(r) ==
    /\ r.stage = "answered"
    /\ LET w == Resume(state, net (-) One(r), r, Response(r.res))
       IN  state' = w.state /\ net' = w.net
    /\ UNCHANGED ServerVars

\* fetch() rejects: request r or its response is lost
Reject(r) ==
    /\ LET w == Resume(state, net (-) One(r), r, Rejected)
       IN  state' = w.state /\ net' = w.net
    /\ UNCHANGED ServerVars

IndexHandles == \E r \in InFlight : IndexHandle(r)
AppHandles == \E r \in InFlight : AppHandle(r)
Deliver == \E r \in InFlight : DeliverTo(r)
FetchRejects == \E r \in InFlight : Reject(r)

ClientNext ==
    \/ ClickLoadMore
    \/ ClickSpellCard
    \/ ClickAddSpell
    \/ SubmitForm
    \/ ClickDelete
    \/ IndexHandles
    \/ AppHandles
    \/ Deliver
    \/ FetchRejects

Spec == ClientInit /\ [][ClientNext]_vars

\* every request issued eventually resolves or rejects: the requests of each
\* kind keep moving (handled by the server, delivered, or rejected)
Kinds == {"list", "spell", "create", "update", "delete"}
Settles(kind) ==
    \E r \in InFlight :
        /\ r.kind = kind
        /\ (Reject(r) \/ DeliverTo(r) \/ IndexHandle(r) \/ AppHandle(r))

\* a request in flight can always be rejected, so Settles(kind) is enabled
\* exactly when a request of that kind is pending; weak fairness of
\* Settles(kind), WF_vars(Settles(kind)), written out with that
Pending(kind) == \E r \in InFlight : r.kind = kind

FairSpec ==
    Spec /\ \A kind \in Kinds :
                ([]<>~Pending(kind) \/ []<><<Settles(kind)>>_vars)

\* a single client whose requests all succeed: no fetch rejects, and only
\* answers with an ok status are taken
DeliverOk ==
    \E r \in InFlight :
        /\ r.res.status >= 200 /\ r.res.status <= 299
        /\ DeliverTo(r)

SuccessNext ==
    \/ ClickLoadMore
    \/ ClickSpellCard
    \/ ClickAddSpell
    \/ SubmitForm
    \/ ClickDelete
    \/ IndexHandles
    \/ AppHandles
    \/ DeliverOk

SuccessSpec == ClientInit /\ [][SuccessNext]_vars

\* ------------------------------------------------ the view of a loaded list
\* records that differ in case, in where a text occurs, and in having a space
ViewRecords ==
    {Merge(Form("B"), [id |-> 1, element |-> "Fire"]),
     Merge(Form("a"), [id |-> 2, description |-> "Ab", element |-> "Frost"]),
     Merge(Form("a b"), [id |-> 3, element |-> "Fire"]),
     Merge(Form("A"), [id |-> 4, element |-> "Frost"])}

MaxViewLen == 3

\* the loaded lists: up to MaxViewLen of the records, in any order
ViewLists ==
    UNION {{l \in [1..n -> ViewRecords] : \A i, j \in 1..n : l[i] = l[j] => i = j}
           : n \in 0..MaxViewLen}

\* what is typed into the search input
Queries == {"", " ", "b", "AB", "fr", "a b"}

\* a list has been loaded, no request is in flight
ViewInit ==
    /\ storage = [spellsCache |-> NullCache, trashCache |-> NullCache,
                  spellsFile |-> <<>>, trashFile |-> <<>>]
    /\ nextId = 1
    /\ now = 0
    /\ failures = 0
    /\ table = <<>>
    /\ backend = "index"
    /\ net = EmptyBag
    /\ \E l \in ViewLists : state = setSpells(InitState, l, Len(l))

\* the input listener of #search-input
TypeSearch ==
    /\ \E query \in Queries : state' = setSearchQuery(state, query)
    /\ UNCHANGED <<storage, nextId, now, failures, table, backend, net>>

\* the click listener of #sort-toggle
ClickSortToggle ==
    /\ LET newOrder == IF state.sortOrder = "asc" THEN "desc" ELSE "asc"
       IN  state' = setSortOrder(state, newOrder)
    /\ UNCHANGED <<storage, nextId, now, failures, table, backend, net>>

ViewNext == TypeSearch \/ ClickSortToggle

ViewSpec == ViewInit /\ [][ViewNext]_vars

\* --------------------------------------------------------- client claims
\* how many requests of n satisfy Test
Count(n, Test(_)) ==
    LET S == {x \in BagToSet(n) : Test(x)}
    IN  IF S = {} THEN 0 ELSE BagCardinality([x \in S |-> CopiesIn(x, n)])

IsReload(x) == x.kind = "list" /\ x.args.offset = 0 /\ x.stage = "sent"
IsList(x) == x.kind = "list"
IsSpell(x) == x.kind = "spell"
IsSave(x) == x.kind \in {"create", "update"}
IsDelete(x) == x.kind = "delete"

\* the create of a new spell has been answered with success and the client is
\* about to take the response
CreateSucceeded(r) ==
    /\ r.kind = "create"
    /\ r.stage = "answered"
    /\ api_createSpell(Response(r.res)).ok

\* C1: whenever saveSpell creates a new record and the create request succeeds,
\* a list request for offset 0 is issued after the create response and before
\* loading.save is cleared, in every interleaving, also when a list load is
\* already in flight.
C1_CreateIsFollowedByReload ==
    \A r \in InFlight :
        CreateSucceeded(r) =>
            LET n1 == net (-) One(r)
                w  == Resume(state, n1, r, Response(r.res))
            IN  /\ Count(w.net, IsReload) = Count(n1, IsReload) + 1
                /\ w.state.loading.save

\* the server removed the record and answered the DELETE with a success status
DeleteAccepted(r) ==
    /\ r.kind = "delete"
    /\ r.stage = "answered"
    /\ r.res.status >= 200 /\ r.res.status <= 299

\* C2: when the server accepts a DELETE /spells/:id issued by deleteSpell, the
\* client removes that id from its loaded list and sets selectedSpell to null,
\* for the {ok, deleted} envelope of index.js and the empty 204 of app.js.
C2_AcceptedDeleteUpdatesClient ==
    \A r \in InFlight :
        DeleteAccepted(r) =>
            LET w == Resume(state, net (-) One(r), r, Response(r.res))
            IN  /\ FindIndex(w.state.spells, r.args.id) = 0
                /\ w.state.selectedSpell = Null

\* a list response that loadSpells is about to apply
ListLoaded(r) ==
    /\ r.kind = "list"
    /\ r.stage = "answered"
    /\ api_fetchSpells(Response(r.res)).ok

\* C7: immediately after every successful list load applied by loadSpells
\* (setSpells for offset 0, appendSpells for offset > 0) the store has
\* offset = length(spells), also when a save or delete completed while the
\* request was in flight; a setSpells after appendSpells sets offset to the
\* new list's length, not a cumulative value.
C7_OffsetIsLengthAfterLoad ==
    \A r \in InFlight :
        ListLoaded(r) =>
            LET w == Resume(state, net (-) One(r), r, Response(r.res))
            IN  /\ w.state.offset = Len(w.state.spells)
                /\ r.args.offset = 0 => w.state.offset = Len(r.res.body.items)

\* an append is about to land on a list that changed while it was in flight
C7_Witness ==
    \E r \in InFlight :
        /\ ListLoaded(r)
        /\ r.args.offset > 0
        /\ Len(r.res.body.items) > 0
        /\ Len(state.spells) # r.args.offset
        /\ LET w == Resume(state, net (-) One(r), r, Response(r.res))
           IN  w.state.offset = Len(w.state.spells)

\* C8: in every reachable client state with no list load in flight, the offset
\* the Load More handler sends equals the number of records in the loaded list.
C8_LoadMoreOffsetIsListLength ==
    ~state.loading.list => LoadMoreOffset = Len(state.spells)

\* C9: for each operation kind k in {list, spell, save, delete}, an invocation
\* made while loading.k is true issues no request and changes no field of the
\* store, so at most one request of each kind is in flight at any time.
C9_SingleFlightPerKind ==
    /\ state.loading.list =>
           \A offset \in 0..(MaxIds + 1) :
               main_loadSpells(state, net, offset, [caller |-> "ui"])
                   = Went(state, net, FALSE)
    /\ state.loading.spell =>
           \A id \in Ids : main_loadSpell(state, net, id) = Went(state, net, FALSE)
    /\ state.loading.save =>
           \A name \in FormNames :
               main_saveSpell(state, net, Form(name)) = Went(state, net, FALSE)
    /\ state.loading.delete =>
           \A id \in Ids : \A confirmed \in BOOLEAN :
               main_deleteSpell(state, net, id, confirmed) = Went(state, net, FALSE)
    /\ Count(net, IsList) <= 1
    /\ Count(net, IsSpell) <= 1
    /\ Count(net, IsSave) <= 1
    /\ Count(net, IsDelete) <= 1

\* saveSpell calls loadSpells(0) while a list load is running, with a card's
\* spell being loaded as well
C9_Witness ==
    /\ state.loading.list /\ state.loading.spell /\ state.loading.save
    /\ Count(net, IsList) = 1 /\ Count(net, IsSpell) = 1
    /\ \E r \in InFlight : CreateSucceeded(r)

\* C10: whenever an operation sets a loading flag (list, spell, save, delete)
\* to true, the flag eventually becomes false again, whether the request
\* succeeds or fails, given that every request eventually resolves or rejects.
C10_LoadingFlagsAreCleared ==
    \A k \in {"list", "spell", "save", "delete"} :
        state.loading[k] ~> ~state.loading[k]

\* a save waits for its reload while the list flag is set too
C10_Witness ==
    /\ state.loading.save /\ state.loading.list
    /\ \E r \in InFlight : r.kind = "list" /\ r.k.caller = "save"

\* ---------------------------------------------------------- store claims
\* the fields of the store other than error and loading.save are those of before
OnlyErrorAndSaveFlag(before, after) ==
    /\ \A f \in DOMAIN before \ {"error", "loading"} : after[f] = before[f]
    /\ \A k \in DOMAIN before.loading \ {"save"} : after.loading[k] = before.loading[k]

\* what fetch() can give for request r in the current state
Outcomes(r) == {Rejected} \cup (IF r.stage = "answered" THEN {Response(r.res)} ELSE {})

SaveResult(r, out) ==
    IF r.kind = "create" THEN api_createSpell(out) ELSE api_updateSpell(out)

\* C11: when the create or update request of saveSpell fails, or the name is
\* blank, saveSpell leaves spells, total, offset and selectedSpell as they
\* were; only error and the save loading flag are touched.
C11_FailedSaveLeavesStore ==
    /\ \A r \in InFlight : \A out \in Outcomes(r) :
           (IsSave(r) /\ ~SaveResult(r, out).ok) =>
               LET w == Resume(state, net (-) One(r), r, out)
               IN  /\ OnlyErrorAndSaveFlag(state, w.state)
                   /\ w.state.error = SaveResult(r, out).message
                   /\ ~w.state.loading.save
                   /\ w.net = net (-) One(r)
    /\ \A name \in FormNames :
           LET w == main_saveSpell(state, net, Form(name))
           IN  /\ OnlyErrorAndSaveFlag(state, w.state)
               /\ Trim(name) = "" =>
                      (w.net = net /\ w.state.loading.save = state.loading.save)

\* the server refused an update while the client holds a list and a selection
C11_Witness ==
    \E r \in InFlight :
        /\ IsSave(r) /\ r.stage = "answered" /\ r.res.status >= 400
        /\ state.selectedSpell # Null /\ Len(state.spells) > 0
        /\ LET w == Resume(state, net (-) One(r), r, Response(r.res))
           IN  /\ w.state.spells = state.spells
               /\ w.state.selectedSpell = state.selectedSpell
               /\ w.state.error # NoError


\* the limits and offsets a caller passes: limit >= 1, offset >= 0, up to
\* beyond the number of records
Limits == 1..(MaxIds + 1)
Offsets == 0..(MaxIds + 1)

\* C12: for every limit >= 1 and offset >= 0, getSpellsPaginated(limit,
\* offset).total is the number of live records, the same for every limit and
\* offset.
C12_TotalIsLiveCount ==
    \A sortedSpells \in Sorted(Live, "createdAt") :
        \A limit \in Limits : \A offset \in Offsets :
            getSpellsPaginated(storage, limit, offset, sortedSpells).ret.total
                = Len(Live)

\* two live records, and a page that holds one of them
C12_Witness ==
    /\ Len(Live) = 2
    /\ \A sortedSpells \in Sorted(Live, "createdAt") :
           LET page == getSpellsPaginated(storage, 1, 1, sortedSpells).ret
           IN  Len(page.items) = 1 /\ page.total = 2

\* s is ordered newest first: no record stands before a newer one
NewestFirst(s) ==
    \A i, j \in DOMAIN s :
        (i < j /\ s[i].createdAt # NotADate /\ s[j].createdAt # NotADate) =>
            s[i].createdAt >= s[j].createdAt

\* t holds the records of s, each as often
SameRecords(s, t) ==
    /\ Len(s) = Len(t)
    /\ \A i \in DOMAIN s :
           Cardinality({j \in DOMAIN s : s[j] = s[i]})
               = Cardinality({j \in DOMAIN t : t[j] = s[i]})

\* C13: getSpellsPaginated(limit, offset).items is exactly the slice
\* [offset, offset+limit) of the live records ordered by createdAt descending,
\* restored records standing where their createdAt puts them; with offset at
\* or beyond the live count items is empty.
C13_ItemsAreSliceOfNewestFirst ==
    \A sortedSpells \in Sorted(Live, "createdAt") :
        /\ SameRecords(Live, sortedSpells)
        /\ NewestFirst(sortedSpells)
        /\ \A limit \in Limits : \A offset \in Offsets :
               LET items == getSpellsPaginated(storage, limit, offset, sortedSpells).ret.items
                   n == Min(limit, Max(0, Len(Live) - offset))
               IN  /\ Len(items) = n
                   /\ \A i \in 1..n : items[i] = sortedSpells[offset + i]
                   /\ offset >= Len(Live) => items = <<>>

\* bodies of POST /spells that pass validation: the name only, a name to
\* trim, every optional field given, optional fields given with the values
\* of the defaults, and a body that brings an id and timestamps of its own
CreateBodies ==
    {[name |-> "a"],
     [name |-> " b "],
     [name |-> "a", element |-> "Fire", rarity |-> "Rare", manaCost |-> 3,
      cooldownSec |-> 2, description |-> "d", ingredients |-> <<"salt">>],
     [name |-> "a", manaCost |-> 0, cooldownSec |-> 0, description |-> "",
      ingredients |-> <<>>],
     [name |-> "a", id |-> 0, createdAt |-> 0, updatedAt |-> MaxClock + 1]}

Defaults ==
    [element |-> "Arcane", rarity |-> "Common", manaCost |-> 0, cooldownSec |-> 0,
     description |-> "", ingredients |-> <<>>]

\* spell is what a POST with this body and this fresh id has to produce
Created(spell, body, uuid) ==
    /\ spell.id = uuid
    /\ spell.name = Trim(body.name)
    /\ Has(spell, "createdAt") /\ Has(spell, "updatedAt")
    /\ spell.createdAt = spell.updatedAt
    /\ \A f \in DOMAIN Defaults :
           spell[f] = IF Has(body, f) THEN body[f] ELSE Defaults[f]

\* C14: every record produced by a successful POST /spells, on either server,
\* has a server-generated id, createdAt equal to updatedAt, the defaults for
\* the optional fields the request omitted, and each provided valid field as
\* given (name trimmed).
C14_PostAssignsIdTimesAndDefaults ==
    \A body \in CreateBodies :
        LET r == index_post(storage, body, nextId, now, TRUE)
            a == app_post(table, TRUE, body, nextId, now)
        IN  /\ r.res.status = 201
            /\ Created(r.res.body, body, nextId)
            /\ r.st.spellsCache.v = Append(Live, r.res.body)
            /\ a.res.status = 201
            /\ Created(a.res.body, body, nextId)
            /\ a.tb = Append(table, a.res.body)

\* the same for the file-backed server alone
C14_IndexPostAssigns ==
    \A body \in CreateBodies :
        LET r == index_post(storage, body, nextId, now, TRUE)
        IN  /\ r.res.status = 201
            /\ Created(r.res.body, body, nextId)
            /\ r.st.spellsCache.v = Append(Live, r.res.body)

\* bodies the validation has to refuse, whether they create or update: a
\* blank or mistyped name, a value outside an enum, a negative or mistyped
\* number, a mistyped description, ingredients that are no list of strings
InvalidBodies ==
    {[name |-> ""], [name |-> " "], [name |-> "a", mistyped |-> {"name"}],
     [name |-> "a", element |-> "Water"], [rarity |-> "Epic"],
     [name |-> "a", manaCost |-> 0 - 1], [manaCost |-> 0, mistyped |-> {"manaCost"}],
     [cooldownSec |-> 0 - 1], [name |-> "a", cooldownSec |-> 0, mistyped |-> {"cooldownSec"}],
     [name |-> "a", description |-> "", mistyped |-> {"description"}],
     [name |-> "a", ingredients |-> <<>>, mistyped |-> {"ingredients"}],
     [ingredients |-> <<"salt">>, mistyped |-> {"ingredients[]"}]}

\* bodies that are valid for an update only: they leave the name out
PartialBodies == {[manaCost |-> 0], [description |-> "d"], [element |-> "Fire"]}

\* st holds the live set and the trash of the current state, files included
StoreUntouched(st) ==
    /\ loadSpells(st).spellsCache.v = Live
    /\ loadTrash(st).trashCache.v = Trash
    /\ st.spellsFile = storage.spellsFile
    /\ st.trashFile = storage.trashFile

IsLive(id) == FindIndex(Live, id) # 0

\* C15: a create or update request with an invalid body is rejected with a
\* 400 validation error and leaves the live set and the trash as they were;
\* for update only the fields present in the body are checked.
C15_InvalidBodyIs400 ==
    /\ \A body \in InvalidBodies \cup PartialBodies :
           LET r == index_post(storage, body, nextId, now, TRUE)
           IN  r.res.status = 400 /\ StoreUntouched(r.st)
    /\ \A id \in Ids : \A body \in InvalidBodies :
           LET r == index_put(storage, id, body, now, TRUE)
           IN  r.res.status = 400 /\ StoreUntouched(r.st)
    /\ \A id \in Ids : \A body \in PartialBodies :
           IsLive(id) => index_put(storage, id, body, now, TRUE).res.status = 200

\* C15 as amended: the same, where an update request for an id that is not in
\* the live set is rejected with 404 whatever its body.
C15_InvalidBodyIsRejected ==
    /\ \A body \in InvalidBodies \cup PartialBodies :
           LET r == index_post(storage, body, nextId, now, TRUE)
           IN  r.res.status = 400 /\ StoreUntouched(r.st)
    /\ \A id \in Ids : \A body \in InvalidBodies :
           LET r == index_put(storage, id, body, now, TRUE)
           IN  /\ r.res.status = IF IsLive(id) THEN 400 ELSE 404
               /\ StoreUntouched(r.st)
    /\ \A id \in Ids : \A body \in PartialBodies :
           IsLive(id) => index_put(storage, id, body, now, TRUE).res.status = 200

\* a record is live, another is in the trash, and an update of the live one
\* with a blank name is refused
C15_Witness ==
    /\ Len(Live) > 0 /\ Len(Trash) > 0
    /\ \E id \in Ids :
           /\ IsLive(id)
           /\ index_put(storage, id, [name |-> " "], now, TRUE).res.status = 400

InTrash(id) == FindIndex(Trash, id) # 0

\* the ids a caller may name: those handed out and one never handed out
AnyIds == 1..(MaxIds + 1)

\* C16: getSpellById, updateSpell and deleteSpell with an id that is not in
\* the live set, and restoreSpell with an id that is not in the trash, return
\* null (HTTP 404) and leave the live set and the trash unchanged.
C16_NotFoundChangesNothing ==
    \A id \in AnyIds : \A ok \in BOOLEAN :
        /\ ~IsLive(id) =>
               LET g == getSpellById(storage, id)
                   u == updateSpell(storage, id, [name |-> "b", updatedAt |-> now], ok)
                   d == storage_deleteSpell(storage, id, now, ok, ok)
               IN  /\ g.ret = Null /\ StoreUntouched(g.st)
                   /\ u.ret = Null /\ StoreUntouched(u.st)
                   /\ d.ret = Null /\ StoreUntouched(d.st)
                   /\ index_getSpell(storage, id).res.status = 404
                   /\ index_put(storage, id, [name |-> "b"], now, ok).res.status = 404
                   /\ index_delete(storage, id, now, ok, ok).res.status = 404
        /\ ~InTrash(id) =>
               LET r == restoreSpell(storage, id, ok, ok)
               IN  /\ r.ret = Null /\ StoreUntouched(r.st)
                   /\ index_restore(storage, id, ok, ok).res.status = 404

\* one record is live, another lies in the trash: the trashed id is not found
\* among the live records, the live id is not found in the trash
C16_Witness ==
    \E id, other \in Ids :
        /\ ~IsLive(id) /\ InTrash(id)
        /\ IsLive(other) /\ ~InTrash(other)
        /\ storage_deleteSpell(storage, id, now, TRUE, TRUE).ret = Null
        /\ restoreSpell(storage, other, TRUE, TRUE).ret = Null

\* update bodies, with those that bring an updatedAt of their own, early and late
StampedBodies == PutBodies \cup {[updatedAt |-> 0], [name |-> "b", updatedAt |-> MaxClock + 1]}

\* C17: across successful updates of a record on the file-backed server its
\* updatedAt never decreases, whatever the body carries (an updatedAt
\* included), the server clock not going backwards.
C17_UpdatedAtNeverDecreases ==
    /\ \A i \in DOMAIN Live : Live[i].updatedAt <= now
    /\ \A id \in Ids : \A body \in StampedBodies : \A ok \in BOOLEAN :
           LET i == FindIndex(Live, id)
               r == index_put(storage, id, body, now, ok)
           IN  (i # 0 /\ r.res.status = 200) =>
                   /\ r.res.body.updatedAt = now
                   /\ r.st.spellsCache.v[i].updatedAt = now
                   /\ r.st.spellsCache.v[i].updatedAt >= Live[i].updatedAt

\* the clock has moved on since a record's last update, and an update that
\* brings an early updatedAt is accepted
C17_Witness ==
    \E id \in Ids :
        LET i == FindIndex(Live, id)
            r == index_put(storage, id, [updatedAt |-> 0], now, TRUE)
        IN  /\ i # 0
            /\ Live[i].updatedAt < now
            /\ r.res.status = 200
            /\ r.st.spellsCache.v[i].updatedAt > Live[i].updatedAt

\* the records a save can hand to updateSpellInList: of every id the server
\* gives out and one more, with a name other than the loaded ones
SavedRecords == {Merge(Form(n), [id |-> i]) : n \in {"a", "z"}, i \in AnyIds}

\* the positions of the loaded list that hold a record of this id
Holding(spells, id) == {i \in DOMAIN spells : spells[i].id = id}

\* C18: updateSpellInList(record): if a record with the same id is in the
\* loaded list it is replaced at the same index, the list length, the order of
\* all other records and total are unchanged; otherwise the record is placed
\* at index 0 ahead of all existing records (whose relative order is kept) and
\* total increases by exactly 1.
C18_ReplaceInPlaceOrPrepend ==
    \A record \in SavedRecords :
        LET old == state.spells
            w == updateSpellInList(state, record)
            at == Holding(old, record.id)
        IN  /\ [f \in DOMAIN w \ {"spells", "total"} |-> w[f]]
                   = [f \in DOMAIN state \ {"spells", "total"} |-> state[f]]
            /\ at # {} =>
                   /\ Len(w.spells) = Len(old)
                   /\ \E i \in at :
                          /\ w.spells[i] = record
                          /\ \A j \in DOMAIN old \ {i} : w.spells[j] = old[j]
                   /\ w.total = state.total
            /\ at = {} =>
                   /\ Len(w.spells) = Len(old) + 1
                   /\ w.spells[1] = record
                   /\ \A j \in DOMAIN old : w.spells[j + 1] = old[j]
                   /\ w.total = state.total + 1

\* a list of two records: the second one is replaced where it is, and a record
\* of an id that is not loaded goes in front of both
C18_Witness ==
    /\ Len(state.spells) >= 2
    /\ \E record, other \in SavedRecords :
           /\ Holding(state.spells, record.id) = {2}
           /\ state.spells[2] # record
           /\ updateSpellInList(state, record).spells[2] = record
           /\ updateSpellInList(state, record).spells[1] = state.spells[1]
           /\ Holding(state.spells, other.id) = {}
           /\ updateSpellInList(state, other).spells[1] = other
           /\ updateSpellInList(state, other).spells[3] = state.spells[2]

\* the k-th position of the loaded list whose record is not of this id
KeptAt(spells, id, k) ==
    CHOOSE j \in DOMAIN spells :
        /\ spells[j].id # id
        /\ Cardinality((1..j) \ Holding(spells, id)) = k

\* C19: removeSpellFromList(id) leaves in the loaded list exactly the records
\* whose id differs from the given id, in their previous relative order, and
\* sets total to max(0, total - 1); total is never negative in any reachable
\* client state.
C19_RemoveFiltersAndFloorsTotal ==
    /\ state.total >= 0
    /\ \A id \in AnyIds :
           LET old == state.spells
               w == removeSpellFromList(state, id)
               kept == Len(old) - Cardinality(Holding(old, id))
           IN  /\ Len(w.spells) = kept
               /\ \A k \in 1..kept : w.spells[k] = old[KeptAt(old, id, k)]
               /\ w.total = (IF state.total >= 1 THEN state.total - 1 ELSE 0)
               /\ w.total >= 0
    /\ \A r \in InFlight : \A out \in Outcomes(r) :
           IsDelete(r) => Resume(state, net (-) One(r), r, out).state.total >= 0

\* an accepted delete is taken while total is 0, its record loaded: the list
\* loses the record and total stays 0
C19_Witness ==
    \E r \in InFlight :
        /\ DeleteAccepted(r)
        /\ state.total = 0
        /\ Holding(state.spells, r.args.id) # {}
        /\ LET w == Resume(state, net (-) One(r), r, Response(r.res)).state
           IN  w.total = 0 /\ Len(w.spells) < Len(state.spells)

\* the text contains the query, letter case apart
ContainsIgnoringCase(text, query) ==
    \E i \in 0..(Len(text) - Len(query)) :
        \A k \in 1..Len(query) : LowerChar(text[i + k]) = LowerChar(query[k])

\* a record whose name, description or element contains the query
Matches(spell, query) ==
    \/ ContainsIgnoringCase(Chars(spell.name), Chars(query))
    \/ ContainsIgnoringCase(Chars(spell.description), Chars(query))
    \/ ContainsIgnoringCase(Chars(spell.element), Chars(query))

\* how often a record occurs in a list
Occurs(list, x) == Cardinality({i \in DOMAIN list : list[i] = x})

\* the list is in the order of the names, by the locale's comparison
OrderedByName(list, sortOrder) ==
    \A i, j \in DOMAIN list :
        i < j => IF sortOrder = "asc"
                 THEN localeCompare(list[i].name, list[j].name) <= 0
                 ELSE localeCompare(list[i].name, list[j].name) >= 0

\* the view holds exactly the records of the loaded list that pass
ExactlyThose(view, Pass(_)) ==
    \A x \in ViewRecords :
        Occurs(view, x) = (IF Pass(x) THEN Occurs(state.spells, x) ELSE 0)

Blank(query) == \A i \in DOMAIN Chars(query) : Chars(query)[i] = " "

\* C20: getFilteredSpells returns, for every loaded list, search query and
\* sort order: all loaded records when the query is empty, otherwise exactly
\* the records whose name, description or element contains the query
\* case-insensitively (OR over the three fields); the result is ordered by
\* name ascending for sortOrder asc and descending for desc.
C20_AllWhenEmptyElseMatching ==
    LET view == getFilteredSpells(state)
    IN  /\ IF state.searchQuery = ""
           THEN ExactlyThose(view, LAMBDA x : TRUE)
           ELSE ExactlyThose(view, LAMBDA x : Matches(x, state.searchQuery))
        /\ OrderedByName(view, state.sortOrder)

\* C20, amended: all loaded records when the query is empty or only white
\* space, otherwise exactly the records whose name, description or element
\* contains the query case-insensitively; ordered by name, ascending for asc
\* and descending for desc.
C20_AllWhenBlankElseMatching ==
    LET view == getFilteredSpells(state)
    IN  /\ IF Blank(state.searchQuery)
           THEN ExactlyThose(view, LAMBDA x : TRUE)
           ELSE ExactlyThose(view, LAMBDA x : Matches(x, state.searchQuery))
        /\ OrderedByName(view, state.sortOrder)

\* a query of one space shows all three loaded records, one of them without a
\* space in it; the query "b" typed next shows two of them, one found by its
\* description, the lower-case name ahead of the upper-case one
C20_Witness ==
    /\ state.searchQuery = " "
    /\ state.sortOrder = "asc"
    /\ Len(state.spells) = 3
    /\ \E i \in DOMAIN state.spells : ~Matches(state.spells[i], " ")
    /\ Len(getFilteredSpells(state)) = 3
    /\ LET view == getFilteredSpells(setSearchQuery(state, "b"))
       IN  /\ Len(view) = 2
           /\ view[1].name = "a" /\ view[1].description = "Ab"
           /\ view[2].name = "B"

StoreCalls ==
    {[op |-> "setSpells", spells |-> l, total |-> Len(l)] : l \in {<<>>, <<Merge(Form("a"), [id |-> 1])>>}}
    \cup {[op |-> "appendSpells", spells |-> <<x>>, total |-> 2] : x \in SavedRecords}
    \cup {[op |-> "setSelectedSpell", spell |-> x] : x \in SavedRecords}
    \cup {[op |-> "clearSelectedSpell"], [op |-> "clearError"]}
    \cup {[op |-> "setLoading", key |-> k, value |-> v] : k \in {"list", "save"}, v \in BOOLEAN}
    \cup {[op |-> "setError", error |-> "Failed"]}
    \cup {[op |-> "setSearchQuery", query |-> q] : q \in {"", "b"}}
    \cup {[op |-> "setSortOrder", order |-> o] : o \in {"asc", "desc"}}
    \cup {[op |-> "updateSpellInList", spell |-> x] : x \in SavedRecords}
    \cup {[op |-> "removeSpellFromList", id |-> i] : i \in AnyIds}

\* the exported operations of state.js, each over updateState as in the source
Call(m, c) ==
    CASE c.op = "setSpells" ->
             updateState_observed(m, [spells |-> c.spells, total |-> c.total,
                                      offset |-> Len(c.spells)])
      [] c.op = "appendSpells" ->
             updateState_observed(m, [spells |-> m.state.spells \o c.spells,
                                      total |-> c.total,
                                      offset |-> Len(m.state.spells) + Len(c.spells)])
      [] c.op = "setSelectedSpell" -> updateState_observed(m, [selectedSpell |-> c.spell])
      [] c.op = "clearSelectedSpell" -> updateState_observed(m, [selectedSpell |-> Null])
      [] c.op = "setLoading" ->
             updateState_observed(m, [loading |-> [m.state.loading EXCEPT ![c.key] = c.value]])
      [] c.op = "setError" -> updateState_observed(m, [error |-> c.error])
      [] c.op = "clearError" -> updateState_observed(m, [error |-> NoError])
      [] c.op = "setSearchQuery" -> updateState_observed(m, [searchQuery |-> c.query])
      [] c.op = "setSortOrder" -> updateState_observed(m, [sortOrder |-> c.order])
      [] c.op = "updateSpellInList" ->
             LET index == FindIndex(m.state.spells, c.spell.id)
             IN  IF index # 0
                 THEN updateState_observed(m,
                          [spells |-> [m.state.spells EXCEPT ![index] = c.spell]])
                 ELSE updateState_observed(m, [spells |-> <<c.spell>> \o m.state.spells,
                                               total |-> m.state.total + 1])
      [] c.op = "removeSpellFromList" ->
             updateState_observed(m, [spells |-> KeepOthers(m.state.spells, c.id),
                                      total |-> Max(0, m.state.total - 1)])

Callbacks == {[fn |-> "renderAll"], [fn |-> "other"]}

\* C22: every named client-store operation invokes the currently registered
\* observer callback exactly once, with the state after the update; after
\* setStateChangeCallback replaces the callback, the previous callback is
\* never invoked again.
C22_ObserverCalledOnceWithNewState ==
    \A callback \in Callbacks : \A c \in StoreCalls :
        LET m == StoreModule(state, callback)
            w == Call(m, c)
        IN  /\ w.calls = <<[callback |-> callback, arg |-> w.state]>>
            /\ \A next \in Callbacks \ {callback} : \A d \in {c, [op |-> "clearError"]} :
                   LET v == Call(Call(setStateChangeCallback(w, next), c), d)
                   IN  /\ Len(v.calls) = 3
                       /\ \A i \in 2..3 : v.calls[i].callback = next
                       /\ v.calls[3].arg = v.state

\* with a list loaded, a record is put in front of it: the callback gets the
\* longer list, and the callback set after that gets the next update alone
C22_Witness ==
    /\ Len(state.spells) >= 1
    /\ \E x \in SavedRecords :
           LET w == Call(StoreModule(state, [fn |-> "renderAll"]),
                         [op |-> "updateSpellInList", spell |-> x])
               v == Call(setStateChangeCallback(w, [fn |-> "other"]), [op |-> "clearSelectedSpell"])
           IN  /\ Len(w.calls) = 1
               /\ Len(w.calls[1].arg.spells) = Len(state.spells) + 1
               /\ w.calls[1].arg # state
               /\ v.calls[2].callback.fn = "other"

\* the paging parameters a request can bring: each missing or an integer,
\* below, at and above the limits the handler knows
LimitInputs == {-1, 0, 1, 2, 20, 50, 51, 999}
OffsetInputs == {-10, -1, 0, 1, 2, 10}
PagingQueries ==
    {<<>>}
    \cup {[limit |-> l] : l \in LimitInputs}
    \cup {[offset |-> o] : o \in OffsetInputs}
    \cup {[limit |-> l, offset |-> o] : l \in LimitInputs, o \in OffsetInputs}

OriginHeaders ==
    {<<>>} \cup {[Origin |-> o] : o \in ALLOWED_ORIGINS \cup {"", "https://evil.example"}}
AppRequests ==
    {[method |-> m, path |-> "/health", headers |-> h, query |-> <<>>, id |-> 0]
        : m \in {"GET", "OPTIONS"}, h \in OriginHeaders}
    \cup {[method |-> "GET", path |-> "/spells", headers |-> h, query |-> q, id |-> 0]
        : h \in OriginHeaders, q \in {<<>>, [limit |-> 0]}}
    \cup {[method |-> m, path |-> "/spells/:id", headers |-> h, query |-> <<>>, id |-> i]
        : m \in {"GET", "OPTIONS"}, h \in OriginHeaders, i \in AnyIds}

Allowed(req) == "Origin" \in DOMAIN req.headers /\ req.headers.Origin \in ALLOWED_ORIGINS

\* C24: for every request to server/app.js, the response carries an
\* Access-Control-Allow-Origin header if and only if the request's Origin is
\* in the allow-list, in which case the header equals that Origin; a request
\* with a disallowed or absent Origin is never answered 403 because of its
\* Origin and gets the same status it would get otherwise, and a preflight
\* OPTIONS from an allowed Origin is answered 204.
C24_CorsHeaderIffAllowed ==
    \A req \in AppRequests : \A supabase \in BOOLEAN :
    \A sortedSpells \in Sorted(loadSpells(storage).spellsCache.v, "createdAt") :
        LET r == app_respond(req, Live, storage, supabase, sortedSpells)
            plain == app_respond([req EXCEPT !.headers = <<>>], Live, storage,
                                 supabase, sortedSpells)
        IN  /\ ("Access-Control-Allow-Origin" \in DOMAIN r.headers) <=> Allowed(req)
            /\ Allowed(req) =>
                   /\ r.headers["Access-Control-Allow-Origin"] = req.headers.Origin
                   /\ req.method = "OPTIONS" => r.status = 204
                   /\ req.method # "OPTIONS" => r.status = plain.status
            /\ ~Allowed(req) => r.status # 403 /\ r.status = plain.status

\* a stored record is asked for by the production front end and by another
\* origin: both get it, the first with the header; the front end's preflight
\* is answered 204
C24_Witness ==
    \E id \in AnyIds : \E sortedSpells \in Sorted(loadSpells(storage).spellsCache.v, "createdAt") :
        LET get(o) == [method |-> "GET", path |-> "/spells/:id",
                       headers |-> [Origin |-> o], query |-> <<>>, id |-> id]
            ours == app_respond(get("https://spell-book.pages.dev"), Live, storage, TRUE, sortedSpells)
            evil == app_respond(get("https://evil.example"), Live, storage, TRUE, sortedSpells)
            pre == app_respond([get("https://spell-book.pages.dev") EXCEPT !.method = "OPTIONS"],
                               Live, storage, TRUE, sortedSpells)
        IN  /\ ours.status = 200 /\ evil.status = 200
            /\ ours.headers["Access-Control-Allow-Origin"] = "https://spell-book.pages.dev"
            /\ evil.headers = NoHeaders
            /\ pre.status = 204

\* C25: when the list request made by loadSpells fails, the client store's
\* spells, total, offset and selectedSpell are unchanged, error is set to the
\* failure message, and loading.list is false once loadSpells finishes.
C25_FailedLoadLeavesStore ==
    \A r \in InFlight : \A out \in Outcomes(r) :
        (IsList(r) /\ ~api_fetchSpells(out).ok) =>
            LET w == loadSpells_resume(state, r, out)
            IN  /\ w.spells = state.spells
                /\ w.total = state.total
                /\ w.offset = state.offset
                /\ w.selectedSpell = state.selectedSpell
                /\ w.error = api_fetchSpells(out).message
                /\ ~w.loading.list

\* a reload of the first page fails while a list is loaded and a record is
\* selected
C25_Witness ==
    \E r \in InFlight :
        /\ IsList(r) /\ r.args.offset = 0
        /\ Len(state.spells) > 0 /\ state.selectedSpell # Null
        /\ state.loading.list /\ state.error = NoError
        /\ LET w == Resume(state, net (-) One(r), r, Rejected).state
           IN  /\ w.spells = state.spells
               /\ w.error = "Failed to fetch"
               /\ ~w.loading.list

\* the live records of the server the client talks to
ServerLive == IF backend = "index" THEN Live ELSE table

\* C26: with a single client, no other writers and every request succeeding,
\* in every reachable state where nothing is in flight and offset >= total
\* (Load More disabled), the client's loaded list contains every live record
\* of the store exactly once: no live record is missing and no id appears
\* twice, after any sequence of page loads, creates, updates and deletes.
C26_LoadedListIsLiveSet ==
    (InFlight = {} /\ state.offset >= state.total) =>
        /\ \A i \in DOMAIN ServerLive :
               Cardinality(Holding(state.spells, ServerLive[i].id)) = 1
        /\ \A i, j \in DOMAIN state.spells :
               state.spells[i].id = state.spells[j].id => i = j

\* C27: after any sequence of create, update, delete and restore requests
\* handled by the file-backed server, no two live records share an id and no
\* id is present in both the live set and the trash.
C27_IdsAreUnique ==
    /\ \A i, j \in DOMAIN Live : Live[i].id = Live[j].id => i = j
    /\ \A i \in DOMAIN Live : \A j \in DOMAIN Trash : Live[i].id # Trash[j].id

\* the ids of the records in spells.json and in trash.json
InSpellsFile == {storage.spellsFile[i].id : i \in DOMAIN storage.spellsFile}
InTrashFile == {storage.trashFile[i].id : i \in DOMAIN storage.trashFile}

\* C28: delete and restore on the file-backed store are atomic with respect
\* to persistence: in every reachable state of the persisted files, also
\* after a failed write of spells.json or trash.json and after a restart that
\* reloads the caches from disk, each record id that was created and never
\* lost is in exactly one of spells.json and trash.json, never in both (in no
\* state) and never in neither (an id that is in one of the files is in one
\* of them after every step).
C28_FilesHoldEachIdOnce ==
    /\ [](InSpellsFile \cap InTrashFile = {})
    /\ [][(InSpellsFile \cup InTrashFile) \subseteq (InSpellsFile' \cup InTrashFile')]_vars

\* C29: in the REST service of server/app.js, every record removed by a
\* successful DELETE /spells/:id appears afterwards in GET /trash with a
\* deletedAt stamp and can be brought back by POST /trash/:id/restore, after
\* which GET /spells/:id returns it with the same id; both when the hosted
\* backend is configured and when it is not.
C29_AppDeleteGoesToTrash ==
    \A supabase \in BOOLEAN : \A k \in DOMAIN table :
        LET id == table[k].id
            d == app_delete(table, supabase, id)
            tr == app_getTrash(storage)
            rs == app_restore(tr.st, id, TRUE, TRUE)
            g == app_getSpell(d.tb, supabase, id)
        IN  d.res.status = 204 =>
                /\ \E i \in DOMAIN tr.res.body :
                       tr.res.body[i].id = id /\ Has(tr.res.body[i], "deletedAt")
                /\ rs.res.status = 200
                /\ g.res.status = 200 /\ g.res.body.id = id

SomeFalse(w) == \E i \in DOMAIN w : ~w[i]

\* C3: for every existing record and every update body that passes validation
\* (whatever fields it carries, id and createdAt included), PUT /spells/:id on
\* the file-backed server leaves the record's id and createdAt as they were.
C3_PutPreservesIdAndCreatedAt ==
    \A id \in Ids : \A body \in PutBodies :
        LET i == FindIndex(Live, id)
            r == index_put(storage, id, body, now, TRUE)
        IN  (i # 0 /\ r.res.status = 200) =>
                /\ r.st.spellsCache.v[i].id = Live[i].id
                /\ r.st.spellsCache.v[i].createdAt = Live[i].createdAt

\* C4: after deleteSpell(id) succeeds on a live record, the trash holds exactly
\* one entry with that id, that entry has a deletedAt field, and
\* getSpellById(id) returns null.
C4_DeleteLeavesOneTrashEntry ==
    \A id \in Ids :
        LET d    == storage_deleteSpell(storage, id, now, TRUE, TRUE)
            tr   == d.st.trashCache.v
            hits == {i \in 1..Len(tr) : tr[i].id = id}
        IN  d.ret # Null =>
                /\ Cardinality(hits) = 1
                /\ \A i \in hits : Has(tr[i], "deletedAt")
                /\ getSpellById(d.st, id).ret = Null

\* C5: for every live record r, deleteSpell(r.id) followed by restoreSpell(r.id)
\* returns a record equal to r in every field except possibly updatedAt (no
\* deletedAt, same id and createdAt), and afterwards r.id is live again and
\* absent from the trash.
C5_RestoreAfterDeleteRoundTrip ==
    \A k \in 1..Len(Live) :
        LET r  == Live[k]
            d  == storage_deleteSpell(storage, r.id, now, TRUE, TRUE)
            rs == restoreSpell(d.st, r.id, TRUE, TRUE)
        IN  /\ rs.ret # Null
            /\ DOMAIN rs.ret = DOMAIN r
            /\ \A f \in (DOMAIN r) \ {"updatedAt"} : rs.ret[f] = r[f]
            /\ FindIndex(rs.st.spellsCache.v, r.id) # 0
            /\ FindIndex(rs.st.trashCache.v, r.id) = 0

\* C6: when writing spells.json or trash.json fails during a create, update,
\* delete or restore, the failure is reported: the storage function returns no
\* success result and the HTTP handler answers with no success status.
C6_WriteFailureIsReported ==
    /\ \A body \in PostBodies :
           index_post(storage, body, nextId, now, FALSE).res.status >= 400
    /\ \A id \in Ids : \A body \in PutBodies :
           index_put(storage, id, body, now, FALSE).res.status >= 400
    /\ \A id \in Ids : \A w \in {v \in [1..2 -> BOOLEAN] : SomeFalse(v)} :
           /\ index_delete(storage, id, now, w[1], w[2]).res.status >= 400
           /\ index_restore(storage, id, w[1], w[2]).res.status >= 400

====
